---- MODULE Spec2Model ----
(***************************************************************************)
(* Model of runDockerContainer_1.py: run_docker_container and the script's *)
(* __main__ entry.  A Python str is a sequence of atoms (":" and "=" are   *)
(* atoms of their own), a list is a sequence, a dict is a function.        *)
(***************************************************************************)
EXTENDS Integers, Sequences, FiniteSets, TLC

\* ------------------------------------------------------------------ bounds
MaxContainers == 2
MaxVolumes == 2

\* ------------------------------------------------------- Python primitives
EmptyDict == [k \in {} |-> <<>>]

\* d[k] = v on a dict: insert, or overwrite an existing key
DictPut(d, k, v) == [x \in (DOMAIN d) \cup {k} |-> IF x = k THEN v ELSE d[x]]

\* index of the first occurrence of atom d in s, 0 when absent
RECURSIVE FirstIndex(_, _, _)
FirstIndex(s, d, from) ==
    IF from > Len(s) THEN 0
    ELSE IF s[from] = d THEN from
    ELSE FirstIndex(s, d, from + 1)

\* str.split(d): cuts at EVERY occurrence of d; always at least one part
RECURSIVE StrSplit(_, _)
StrSplit(s, d) ==
    LET k == FirstIndex(s, d, 1)
    IN  IF k = 0 THEN <<s>>
        ELSE <<SubSeq(s, 1, k - 1)>> \o StrSplit(SubSeq(s, k + 1, Len(s)), d)

\* f"{container_ports}/{protocol}"
PortKey(container_ports, protocol) == container_ports \o <<"/", protocol>>

\* ---------------------------------------------------------- input domains
Protocols == {"tcp", "udp"}

\* the port lists tried; "h:c" is the documented format
PortLists ==
    { <<>>,
      << <<"8080", ":", "80">> >>,
      << <<"8080">> >>,                                  \* no delimiter
      << <<"53", ":", "53">>, <<"8080", ":">> >> }       \* empty container side

VolumeStrings ==
    { <<"/a", ":", "/x">>,
      <<"/b", ":", "/y">>,
      <<"/a">> }

EnvLists ==
    { <<>>,
      << <<"KEY", "=", "a", "=", "b">> >>,
      << <<"K", "=", "v">>, <<"KEY">> >> }

UnknownArgLists ==
    { <<>>,
      << <<"clean_host_volume_dirs", "=", "1">> >>,
      << <<"clean_host_volume_dirs", "=">> >>,
      << <<"environment", "=", "x">> >>,
      << <<"verbose", "=", "1">> >>,
      << <<"bogus">> >> }

\* the host directories that may exist; any other path does not
HostDirs == {<<"/a">>}

\* all sequences over S of length lo..hi
SeqsOf(S, lo, hi) == UNION { [1..n -> S] : n \in lo..hi }

\* outcomes of a call on the docker client, as the handlers tell them apart:
\* docker.errors.NotFound, any other docker.errors.APIError, any other exception
Outcomes == {"OK", "NotFound", "APIError", "Other"}
\* pull and run have one handler for every APIError, NotFound included
StartOutcomes == {"OK", "APIError", "Other"}

\* ------------------------------------------------------------------- state
VARIABLES
    name,             \* the name argument ("None" when not given)
    mode,             \* "function": run_docker_container called directly; "main": the script
    protocol,         \* the caller's protocol argument
    ports,            \* the ports argument: [none |-> BOOLEAN, items |-> list]
    volumes,          \* the volumes argument, same shape
    environment,      \* the environment argument (a list of strings)
    clean,            \* clean_host_volume_dirs, as its truth value
    unknown_args,     \* main: the arguments argparse did not recognise
    dirs,             \* the host directories that exist
    running,          \* the daemon: running containers of the target image
    pc,               \* position in the code
    inv,              \* which call of run_docker_container (main makes two)
    runningContainers,\* the listing, in order
    idx,              \* position of the stop loop in the listing
    params,           \* the params dict
    calls,            \* every call issued to the docker client, in order
    handed,           \* the keyword arguments of every containers.run call
    ended             \* how each finished call ended: [inv, at, how]

vars == << name, mode, protocol, ports, volumes, environment, clean, unknown_args, dirs,
           running, pc, inv, runningContainers, idx, params, calls, handed, ended >>


\* ------------------------------------------- lines 25-38: the params dict
\* protocol = params.pop('protocol'): the value popped is the default's
PoppedProtocol(protocolArg) == "tcp"

\* default_params with 'ports' and 'volumes' overwritten by the arguments;
\* 'environment' keeps the default []
MergeParams(nameArg, portsArg, volumesArg, environmentArg) ==
    [name |-> nameArg, ports |-> portsArg, volumes |-> volumesArg,
     environment |-> [none |-> FALSE, items |-> <<>>]]

\* -------------------------------------------------- lines 89-97: the ports
RECURSIVE PortsLoop(_, _, _)
PortsLoop(items, proto, ports_dict) ==
    IF items = <<>> THEN [status |-> "ok", dict |-> ports_dict]
    ELSE LET parts == StrSplit(Head(items), ":")
         IN  IF Len(parts) < 2
             THEN [status |-> "IndexError", dict |-> ports_dict]
             ELSE PortsLoop(Tail(items), proto,
                            DictPut(ports_dict, PortKey(parts[2], proto), parts[1]))

\* ------------------------------------------------ lines 99-115: the volumes
\* variant: the result of the directory test is not looked at
TestDirIgnored(host_path, existing) == TRUE

\* subprocess.check_call(['test', '-d', host_path])
TestDir(host_path, existing) == host_path \in existing

RECURSIVE VolumesLoop(_, _, _, _)
VolumesLoop(items, cleanFlag, existing, volumes_dict) ==
    IF items = <<>> THEN [status |-> "ok", dict |-> volumes_dict]
    ELSE LET parts == StrSplit(Head(items), ":")
         IN  IF Len(parts) < 2
             THEN [status |-> "IndexError", dict |-> volumes_dict]
             ELSE IF cleanFlag /\ ~TestDir(parts[1], existing)
             THEN [status |-> "return", dict |-> volumes_dict]
             ELSE VolumesLoop(Tail(items), cleanFlag, existing,
                              DictPut(volumes_dict, parts[1],
                                      [bind |-> parts[2], mode |-> "rw"]))

\* ------------------------------------------ lines 118-126: the environment
RECURSIVE EnvLoop(_, _)
EnvLoop(items, environment_dict) ==
    IF items = <<>> THEN [status |-> "ok", dict |-> environment_dict]
    ELSE LET parts == StrSplit(Head(items), "=")
         IN  IF Len(parts) < 2
             THEN [status |-> "IndexError", dict |-> environment_dict]
             ELSE EnvLoop(Tail(items), DictPut(environment_dict, parts[1], parts[2]))

\* ------------------------------------------------------- lines 159-163: main
\* {k: v for k, v in [arg.split('=') for arg in unknown_args]}
RECURSIVE UnknownArgsDict(_, _)
UnknownArgsDict(items, d) ==
    IF items = <<>> THEN [status |-> "ok", dict |-> d]
    ELSE LET parts == StrSplit(Head(items), "=")
         IN  IF Len(parts) # 2
             THEN [status |-> "ValueError", dict |-> d]
             ELSE UnknownArgsDict(Tail(items), DictPut(d, parts[1], parts[2]))

\* keyword names run_docker_container accepts that main does not pass itself
FreeKeywords == {<<"clean_host_volume_dirs">>, <<"environment">>}

\* iterating a str yields its characters
CharsOf(s) == [j \in 1..Len(s) |-> <<s[j]>>]

\* ----------------------------------------------------------------- daemon
RECURSIVE SortedSeq(_)
SortedSeq(S) ==
    IF S = {} THEN <<>>
    ELSE LET m == CHOOSE x \in S : \A y \in S : x <= y
         IN  <<m>> \o SortedSeq(S \ {m})

NewContainerId(invocation) == MaxContainers + invocation

Call(op, arg, res) == [inv |-> inv, op |-> op, arg |-> arg, res |-> res]

\* ------------------------------------------------------------------- Init
ListArg(S, lo, hi) == { [none |-> FALSE, items |-> l] : l \in SeqsOf(S, lo, hi) }
NoneArg == [none |-> TRUE, items |-> <<>>]

Init ==
    /\ name = "None"
    /\ mode \in {"function", "main"}
    /\ protocol \in Protocols
    /\ dirs \in SUBSET HostDirs
    /\ running \in { 1..n : n \in 0..MaxContainers }
    \* called directly the lists default to []; argparse (nargs='+', no default)
    \* gives None or a list of at least one string
    /\ ports \in IF mode = "function" THEN { [none |-> FALSE, items |-> l] : l \in PortLists }
                 ELSE {NoneArg} \cup { [none |-> FALSE, items |-> l] : l \in PortLists \ {<<>>} }
    /\ volumes \in IF mode = "function" THEN ListArg(VolumeStrings, 0, MaxVolumes)
                   ELSE {NoneArg} \cup ListArg(VolumeStrings, 1, MaxVolumes)
    /\ environment \in IF mode = "function" THEN EnvLists
                       ELSE {<<>>}
    /\ clean \in IF mode = "function" THEN BOOLEAN ELSE {FALSE}
    /\ unknown_args \in IF mode = "function" THEN {<<>>}
                        ELSE UnknownArgLists
    /\ pc = IF mode = "function" THEN "import" ELSE "main"
    /\ inv = 1
    /\ runningContainers = <<>>
    /\ idx = 1
    /\ params = MergeParams(name, ports, volumes, environment)
    /\ calls = <<>>
    /\ handed = <<>>
    /\ ended = <<>>

\* ------------------------------------------------- how a call comes to an end
\* where control goes when run_docker_container ends: an uncaught exception
\* ends the script; a return from main's first call leads to its second call
AfterCall(how) ==
    IF mode = "main" /\ inv = 1 /\ how # "raise" THEN "main2" ELSE "exit"

Finish(at, how) ==
    /\ ended' = Append(ended, [inv |-> inv, at |-> at, how |-> how])
    /\ pc' = AfterCall(how)

\* ---------------------------------------------------------------- actions
\* lines 159-163: the kwargs of main's first call
Main ==
    /\ pc = "main"
    /\ LET r == UnknownArgsDict(unknown_args, EmptyDict)
       IN  IF r.status # "ok"
           THEN /\ ended' = Append(ended, [inv |-> 0, at |-> "main", how |-> "raise"])
                /\ pc' = "exit"
                /\ UNCHANGED << clean, environment, params >>
           ELSE IF ~(DOMAIN r.dict \subseteq FreeKeywords)
           THEN \* TypeError: unexpected keyword argument
                /\ ended' = Append(ended, [inv |-> 0, at |-> "main", how |-> "raise"])
                /\ pc' = "exit"
                /\ UNCHANGED << clean, environment, params >>
           ELSE /\ clean' = IF <<"clean_host_volume_dirs">> \in DOMAIN r.dict
                            THEN r.dict[<<"clean_host_volume_dirs">>] # <<>>
                            ELSE FALSE
                /\ environment' = IF <<"environment">> \in DOMAIN r.dict
                                  THEN CharsOf(r.dict[<<"environment">>])
                                  ELSE <<>>
                /\ params' = MergeParams(name, ports, volumes, environment')
                /\ pc' = "import"
                /\ UNCHANGED ended
    /\ UNCHANGED << name, mode, protocol, ports, volumes, unknown_args, dirs, running,
                    inv, runningContainers, idx, calls, handed >>

\* line 165: main's second call, without the unknown arguments
SecondCall ==
    /\ pc = "main2"
    /\ inv' = 2
    /\ clean' = FALSE
    /\ environment' = <<>>
    /\ params' = MergeParams(name, ports, volumes, environment')
    /\ runningContainers' = <<>>
    /\ idx' = 1
    /\ pc' = "import"
    /\ UNCHANGED << name, mode, protocol, ports, volumes, unknown_args, dirs, running,
                    calls, handed, ended >>

\* lines 55-66: import docker, pip install on ImportError, docker.from_env()
ImportDocker ==
    /\ pc = "import"
    /\ \E o \in {"imported", "install_failed", "installed"} :
         CASE o = "imported" -> pc' = "list" /\ UNCHANGED ended
           [] o = "install_failed" -> Finish("import", "return")
           \* the local name docker is still unbound at line 66
           [] o = "installed" -> Finish("import", "raise")
    /\ UNCHANGED << name, mode, protocol, ports, volumes, environment, clean,
                    unknown_args, dirs, running, inv, runningContainers, idx, params,
                    calls, handed >>

\* the handlers of lines 82-86 around the try block of lines 69-80
DrainHandler(at, outcome) ==
    CASE outcome = "NotFound" -> pc' = "ports" /\ UNCHANGED ended
      [] outcome = "APIError" -> Finish(at, "return")
      [] outcome = "Other" -> Finish(at, "raise")

\* variant: prune is called whether or not anything was listed
AfterListAlwaysPrune(listing) == IF listing # <<>> THEN "stop" ELSE "prune"

\* line 73: if (runningContainers)
AfterList(listing) == IF listing # <<>> THEN "stop" ELSE "ports"

\* lines 71-73
ListContainers ==
    /\ pc = "list"
    /\ \E o \in Outcomes :
         IF o = "OK"
         THEN /\ runningContainers' = SortedSeq(running)
              /\ calls' = Append(calls, Call("list", Len(runningContainers'), o))
              /\ pc' = AfterList(runningContainers')
              /\ UNCHANGED ended
         ELSE /\ calls' = Append(calls, Call("list", 0, o))
              /\ DrainHandler("list", o)
              /\ UNCHANGED runningContainers
    /\ idx' = 1
    /\ UNCHANGED << name, mode, protocol, ports, volumes, environment, clean,
                    unknown_args, dirs, running, inv, params, handed >>

\* lines 76-77: one turn of the loop
StopContainer ==
    /\ pc = "stop"
    /\ idx <= Len(runningContainers)
    /\ LET c == runningContainers[idx]
       IN  \E o \in Outcomes :
             /\ calls' = Append(calls, Call("stop", c, o))
             /\ IF o = "OK"
                THEN /\ running' = running \ {c}
                     /\ idx' = idx + 1
                     /\ pc' = IF idx' > Len(runningContainers) THEN "prune" ELSE "stop"
                     /\ UNCHANGED ended
                ELSE /\ running' = IF o = "NotFound" THEN running \ {c} ELSE running
                     /\ DrainHandler("stop", o)
                     /\ UNCHANGED idx
    /\ UNCHANGED << name, mode, protocol, ports, volumes, environment, clean,
                    unknown_args, dirs, inv, runningContainers, params, handed >>

\* line 79
Prune ==
    /\ pc = "prune"
    /\ \E o \in Outcomes :
         /\ calls' = Append(calls, Call("prune", 0, o))
         /\ IF o = "OK"
            THEN pc' = "ports" /\ UNCHANGED ended
            ELSE DrainHandler("prune", o)
    /\ UNCHANGED << name, mode, protocol, ports, volumes, environment, clean,
                    unknown_args, dirs, running, inv, runningContainers, idx, params,
                    handed >>

\* lines 89-97; iterating None raises TypeError
ConvertPorts ==
    /\ pc = "ports"
    /\ IF params.ports.none
       THEN Finish("ports", "raise") /\ UNCHANGED params
       ELSE LET r == PortsLoop(params.ports.items, PoppedProtocol(protocol), EmptyDict)
            IN  IF r.status = "ok"
                THEN /\ params' = [params EXCEPT !.ports = r.dict]
                     /\ pc' = "volumes"
                     /\ UNCHANGED ended
                ELSE Finish("ports", "raise") /\ UNCHANGED params
    /\ UNCHANGED << name, mode, protocol, ports, volumes, environment, clean,
                    unknown_args, dirs, running, inv, runningContainers, idx, calls,
                    handed >>

\* lines 99-115
ConvertVolumes ==
    /\ pc = "volumes"
    /\ IF params.volumes.none
       THEN Finish("volumes", "raise") /\ UNCHANGED params
       ELSE LET r == VolumesLoop(params.volumes.items, clean, dirs, EmptyDict)
            IN  CASE r.status = "ok" ->
                       /\ params' = [params EXCEPT !.volumes = r.dict]
                       /\ pc' = "environment"
                       /\ UNCHANGED ended
                  [] r.status = "return" -> Finish("volumes", "return") /\ UNCHANGED params
                  [] r.status = "IndexError" ->
                       Finish("volumes", "raise") /\ UNCHANGED params
    /\ UNCHANGED << name, mode, protocol, ports, volumes, environment, clean,
                    unknown_args, dirs, running, inv, runningContainers, idx, calls,
                    handed >>

\* lines 118-126
ConvertEnvironment ==
    /\ pc = "environment"
    /\ LET r == EnvLoop(params.environment.items, EmptyDict)
       IN  IF r.status = "ok"
           THEN /\ params' = [params EXCEPT !.environment = r.dict]
                /\ pc' = "pull"
                /\ UNCHANGED ended
           ELSE Finish("environment", "raise") /\ UNCHANGED params
    /\ UNCHANGED << name, mode, protocol, ports, volumes, environment, clean,
                    unknown_args, dirs, running, inv, runningContainers, idx, calls,
                    handed >>

\* variant: the APIError of a pull is printed and the function goes on
AfterPullGoesOn(outcome) == IF outcome = "Other" THEN "raise" ELSE "run"

\* lines 134-136: what follows a pull
AfterPull(outcome) ==
    CASE outcome = "OK" -> "run"
      [] outcome = "APIError" -> "return"
      [] outcome = "Other" -> "raise"

\* lines 130-136
PullImage ==
    /\ pc = "pull"
    /\ \E o \in StartOutcomes :
         /\ calls' = Append(calls, Call("pull", 0, o))
         /\ LET next == AfterPull(o)
            IN  IF next \in {"return", "raise"}
                THEN Finish("pull", next)
                ELSE pc' = next /\ UNCHANGED ended
    /\ UNCHANGED << name, mode, protocol, ports, volumes, environment, clean,
                    unknown_args, dirs, running, inv, runningContainers, idx, params,
                    handed >>

\* lines 138-147: containers.run(image_name, detach=True, **params)
RunContainer ==
    /\ pc = "run"
    /\ \E o \in StartOutcomes :
         /\ calls' = Append(calls, Call("run", 0, o))
         /\ handed' = Append(handed, params)
         /\ running' = IF o = "OK" THEN running \cup {NewContainerId(inv)} ELSE running
         /\ CASE o = "OK" -> Finish("run", "ran")
              [] o = "APIError" -> Finish("run", "error")
              [] o = "Other" -> Finish("run", "raise")
    /\ UNCHANGED << name, mode, protocol, ports, volumes, environment, clean,
                    unknown_args, dirs, inv, runningContainers, idx, params >>

Next ==
    \/ Main
    \/ SecondCall
    \/ ImportDocker
    \/ ListContainers
    \/ StopContainer
    \/ Prune
    \/ ConvertPorts
    \/ ConvertVolumes
    \/ ConvertEnvironment
    \/ PullImage
    \/ RunContainer

Spec == Init /\ [][Next]_vars

\* ============================================================ properties
\* the calls of one call of run_docker_container, in order
CallsOf(k) == SelectSeq(calls, LAMBDA c : c.inv = k)
Cur == CallsOf(inv)
Has(cs, op) == \E j \in 1..Len(cs) : cs[j].op = op
NumOf(cs, op) == Cardinality({ j \in 1..Len(cs) : cs[j].op = op })
Discovered == { runningContainers[j] : j \in 1..Len(runningContainers) }

\* the current call of run_docker_container is over
Finished == pc \in {"exit", "main2"} /\ \E e \in 1..Len(ended) : ended[e].inv = inv
EndOf == ended[Len(ended)]
Failed == Finished /\ EndOf.how \in {"return", "raise", "error"}

\* "h:c": exactly two non-empty tokens on the delimiter
TwoTokens(str, d) ==
    LET parts == StrSplit(str, d)
    IN  Len(parts) = 2 /\ parts[1] # <<>> /\ parts[2] # <<>>
\* "NAME=value", cut at the first "="
NameAndValue(str) ==
    LET k == FirstIndex(str, "=", 1)
    IN  k > 1 /\ k < Len(str)
AllItems(arg, P(_)) == ~arg.none /\ \A j \in 1..Len(arg.items) : P(arg.items[j])
SomeItem(arg, P(_)) == ~arg.none /\ \E j \in 1..Len(arg.items) : P(arg.items[j])

WellFormedMappings ==
    /\ AllItems(ports, LAMBDA x : TwoTokens(x, ":"))
    /\ AllItems(volumes, LAMBDA x : TwoTokens(x, ":"))
SomeMalformed ==
    \/ SomeItem(ports, LAMBDA x : ~TwoTokens(x, ":"))
    \/ SomeItem(volumes, LAMBDA x : ~TwoTokens(x, ":"))
    \/ \E j \in 1..Len(environment) : ~NameAndValue(environment[j])

HostPath(volume) == StrSplit(volume, ":")[1]
SomeHostDirMissing == SomeItem(volumes, LAMBDA x : HostPath(x) \notin dirs)
VolumeCheckFails == clean /\ SomeHostDirMissing

EmptyListing ==
    Cur # <<>> /\ Cur[1].op = "list" /\ Cur[1].res = "OK" /\ Cur[1].arg = 0

\* C1: whenever run has been issued, every container the listing returned has a
\* stop call that completed successfully before it, and so has a pull call.
C1_RunOnlyAfterAllStopped ==
    \A j \in 1..Len(Cur) :
        Cur[j].op = "run" =>
            /\ \A c \in Discovered :
                 \E i \in 1..(j - 1) :
                     Cur[i].op = "stop" /\ Cur[i].arg = c /\ Cur[i].res = "OK"
            /\ \E i \in 1..(j - 1) : Cur[i].op = "pull"

\* C2: the script, run for an image with nothing running, valid ports, no
\* volumes, no environment and every runtime call succeeding, ends having
\* issued one pull, one run and no stop.
C2_MainOnePullOneRunNoStop ==
    ( /\ mode = "main" /\ pc = "exit"
      /\ unknown_args = <<>>
      /\ ports.items # <<>> /\ AllItems(ports, LAMBDA x : TwoTokens(x, ":"))
      /\ volumes.none
      /\ calls # <<>> /\ calls[1].op = "list" /\ calls[1].arg = 0
      /\ \A j \in 1..Len(calls) : calls[j].res = "OK"
      /\ \A e \in 1..Len(ended) : ended[e].at # "import" )
    => /\ NumOf(calls, "pull") = 1
       /\ NumOf(calls, "run") = 1
       /\ NumOf(calls, "stop") = 0

FailedStops == { j \in 1..Len(Cur) : Cur[j].op = "stop" /\ Cur[j].res # "OK" }
C4_PartialStopFailureTolerated ==
    (Finished /\ FailedStops # {}) =>
        /\ Cardinality(FailedStops) < Len(runningContainers) =>
             /\ \A c \in Discovered :
                  \E j \in 1..Len(Cur) : Cur[j].op = "stop" /\ Cur[j].arg = c
             /\ (WellFormedMappings /\ ~VolumeCheckFails) => Has(Cur, "pull")
        /\ EndOf.at = "stop" => Cardinality(FailedStops) = Len(runningContainers)

\* C5: with clean_host_volume_dirs set and the host path of some supplied volume
\* not an existing directory, the call issues no run call and ends as failed.
C5_MissingHostDirNoRun ==
    VolumeCheckFails =>
        /\ ~Has(Cur, "run")
        /\ Finished => Failed

C5_Witness ==
    /\ VolumeCheckFails /\ Finished
    /\ EndOf.at = "volumes" /\ EndOf.how = "return"
    /\ Has(Cur, "list")

\* C6: when a supplied port, volume or environment string is malformed, the call
\* issues no runtime call at all and ends as failed.
C6_MalformedInputNoRuntimeCall ==
    SomeMalformed =>
        /\ Cur = <<>>
        /\ Finished => Failed

\* C7: the ports handed to run bind, for every valid "h:c", the key
\* "c/<the caller's protocol>" to h.
C7_PortKeyUsesCallerProtocol ==
    \A r \in 1..Len(handed) :
        \A j \in 1..Len(ports.items) :
            TwoTokens(ports.items[j], ":") =>
                LET parts == StrSplit(ports.items[j], ":")
                    key == PortKey(parts[2], protocol)
                IN  /\ key \in DOMAIN handed[r].ports
                    /\ handed[r].ports[key] = parts[1]

\* C8: the environment handed to run maps, for every environment string with
\* more than one "=", the text before the first "=" to all the text after it.
C8_EnvSplitsOnFirstEquals ==
    \A r \in 1..Len(handed) :
        \A j \in 1..Len(environment) :
            LET e == environment[j]
                k == FirstIndex(e, "=", 1)
            IN  Len(StrSplit(e, "=")) > 2 =>
                    /\ SubSeq(e, 1, k - 1) \in DOMAIN handed[r].environment
                    /\ handed[r].environment[SubSeq(e, 1, k - 1)]
                           = SubSeq(e, k + 1, Len(e))

\* C9: when every discovered container was stopped and the prune call fails, the
\* call does not end there: it goes on to pull and, the pull succeeding, to run.
PruneFailed == \E j \in 1..Len(Cur) : Cur[j].op = "prune" /\ Cur[j].res # "OK"
C9_PruneFailureNonFatal ==
    (Finished /\ PruneFailed) =>
        /\ EndOf.at # "prune"
        /\ (WellFormedMappings /\ ~VolumeCheckFails) => Has(Cur, "pull")
        /\ (\E j \in 1..Len(Cur) : Cur[j].op = "pull" /\ Cur[j].res = "OK")
               => Has(Cur, "run")

\* C10 as stated: a pull that fails with a transport error is issued again.
PullFailedWith(errs) ==
    \E j \in 1..Len(Cur) : Cur[j].op = "pull" /\ Cur[j].res \in errs
====
